---- MODULE Spec2Model ----
(***************************************************************************)
(* A model of the Firestore client of workers-firebase: the store's        *)
(* ambient transaction state (firestore.ts), batchGet's re-ordering of the *)
(* server's results, the write batch, and the reference path algebra       *)
(* (reference.ts).                                                         *)
(*                                                                         *)
(* Conventions.  JavaScript's undefined is 0 where the value is a token or *)
(* an array reference, so that every variable keeps one type.  A           *)
(* transaction token is the number of the runTransaction call whose        *)
(* beginTransaction request the server answered with it: the server issues *)
(* a different opaque token per request.  An array is named by the call    *)
(* that allocated it (line 31 allocates one array per call), and heap maps *)
(* the name to the array's contents: the commit request of line 33 holds   *)
(* the array itself, not a copy, until the request body is serialised.     *)
(***************************************************************************)
EXTENDS Integers, Sequences, FiniteSets, TLC

\* ------------------------------------------------------------------ bounds

\* runTransaction calls made on the store in one behaviour
MaxCalls == 2
\* writes issued on the store in one behaviour
MaxWrites == 2
\* writes appended to write batches in one behaviour
MaxBatchWrites == 3
\* the most references one batchGet is given
MaxRefs == 3

\* the longest path string given to a constructor, to doc() and collection(),
\* the longest segment list given to Reference, the most segments of a reference
MaxPathLen == 3
MaxChildLen == 2
MaxListLen == 2
MaxSegments == 3
\* the builder calls made on queries in one behaviour
MaxBuilds == 3
\* the elements of a runQuery response are at most
MaxResponseLen == 3
\* calls of the token getters in one behaviour
MaxTokenCalls == 3
\* the clock stops at 7083 seconds: two waits of about an hour
MaxNow == 7083

\* ------------------------------------------------------------- the variables

VARIABLES
  transactionSymbol,  \* the store's [transactionSymbol]: a token, 0 for undefined
  writesSymbol,       \* the store's [writesSymbol]: an array of heap, 0 for undefined
  heap,               \* the contents of the array each call allocated
  pc,                 \* where each runTransaction call stands
  commitArgs,         \* the body object of a call's commit request (line 33)
  begins,             \* beginTransaction requests sent by each call
  bodyRuns,           \* times each call ran its updateFunction
  commits,            \* commit requests sent by each call
  tok,                \* the token the server returned to each call, 0 before
  overlap,            \* whether another call was in progress during this one
  issued,             \* how many writes each call's body issued
  nextId,             \* the id of the next write issued on the store
  ev                  \* the last step taken: the request it put on the wire and how it
                      \* settled the promise of the call it belongs to

txVars == <<transactionSymbol, writesSymbol, heap, pc, commitArgs,
            begins, bodyRuns, commits, tok, overlap, issued, nextId, ev>>

VARIABLES
  batch,              \* the write batch the caller holds: whether it has one, its writes
  appended,           \* the writes the caller appended to that batch since batch() or
                      \* since the commit before the last one, in order
  batchCount          \* the writes appended to batches so far

batchVars == <<batch, appended, batchCount>>

VARIABLES
  bgPhase,            \* where the batchGet call stands
  bgRefs,             \* the references batchGet was given
  bgResponse,         \* the response the server gave
  bgDocuments,        \* the documents key of the batchGet request
  bgResult            \* what batchGet returned

bgVars == <<bgPhase, bgRefs, bgResponse, bgDocuments, bgResult>>

VARIABLES
  ref,                \* the reference built last
  refEv               \* the call that was made last: its argument and whether it threw

refVars == <<ref, refEv>>

VARIABLES
  qHeld,              \* the Query the caller holds: its [querySymbol]
  qThis,              \* the Query the last method was called on, as it is after the call
  qCall,              \* the method called last, its arguments and what it threw
  qBuilt,             \* the builder calls made so far
  qGet                \* the last get(): its request, the response and what it returned

queryVars == <<qHeld, qThis, qCall, qBuilt, qGet>>

VARIABLES
  now,                \* what now() returns: the clock in whole seconds
  token,              \* getTokenGetter's token, line 15
  tokenExp,           \* getTokenGetter's tokenExp, line 16: 0 for undefined
  tokens,             \* getOauthTokenGetter's tokens, line 34: a token by scope
  tokenExps,          \* getOauthTokenGetter's tokenExps, line 35: 0 for no entry
  tkPc,               \* each call of a getter: where it is and what it asked for
  tkMinted,           \* the tokens signed or fetched so far
  tkEv                \* the last return of a getter

tokenVars == <<now, token, tokenExp, tokens, tokenExps, tkPc, tkMinted, tkEv>>

vars == <<txVars, batchVars, bgVars, refVars, queryVars, tokenVars>>

Calls == 1..MaxCalls

\* the four document writes of DocumentReference and WriteBatch
WriteKinds == {"create", "set", "update", "delete"}

\* The writes the transaction bodies issue. DocumentReference's four writes are
\* one code path, firestore.batch().<kind>(this, ...).commit(), and
\* runTransaction never looks into a write, so the bodies of this model issue
\* the update of the README's example; the write batch is checked with all four
BodyWriteKinds == {"update"}

\* what a promise can be rejected with: a throw of the caller's own code, the
\* StatusError of service.ts, the TypeError of a fetch that could not connect
BodyErrors == {"UserError", "StatusError"}
RequestErrors == {"StatusError", "TypeError"}

\* ------------------------------------------------------------- the requests

\* a request body as JSON.stringify sends it: a key whose value is undefined is
\* left out, which is transaction = 0 and hasWrites = FALSE here
Request(path, transaction, hasWrites, writes) ==
  [path |-> path, transaction |-> transaction, hasWrites |-> hasWrites, writes |-> writes]

NoRequest == Request("", 0, FALSE, <<>>)

Event(op, call, req, err, settled) ==
  [op |-> op, call |-> call, req |-> req, err |-> err, settled |-> settled]

Pending == [status |-> "pending", error |-> ""]
Resolved == [status |-> "resolved", error |-> ""]
\* a promise rejected with the error e: no handler of firestore.ts catches or wraps it
Rejected(e) == [status |-> "rejected", error |-> e]

Active(c) == pc[c] \notin {"idle", "done"}

\* ---------------------------------------------------------------- batchGet

\* batchGet without line 57's transaction key
BatchGetRequestNoToken == Request(":batchGet", 0, FALSE, <<>>)

\* Firestore.batchGet, line 57: the request carries the store's token
BatchGetRequest == Request(":batchGet", transactionSymbol, FALSE, <<>>)

\* Query.get, lines 669-671: the request carries the store's token
RunQueryRequest == Request(":runQuery", transactionSymbol, FALSE, <<>>)

ReadRequest(kind) == IF kind = "batchGet" THEN BatchGetRequest ELSE RunQueryRequest

ReadKinds == {"batchGet", "runQuery"}

\* ------------------------------------------------------------- write batch

\* new WriteBatch(firestore): no write buffered
WriteBatch == <<>>

\* WriteBatch.create/set/update/delete: one write appended, the batch returned
WriteBatchAppend(b, w) == Append(b, w)

\* WriteBatch.commit while the store holds a pending-writes list: the writes
\* join the list and nothing is sent
CommitBuffers == writesSymbol # 0

\* the request WriteBatch.commit sends outside a transaction
WriteBatchCommitRequest(b) == Request(":commit", 0, TRUE, b)

\* WriteBatch.commit: the store's state after it
WriteBatchCommitHeap(b) ==
  IF CommitBuffers THEN [heap EXCEPT ![writesSymbol] = @ \o b] ELSE heap

\* WriteBatch.commit: the request it puts on the wire
WriteBatchCommitSends(b) ==
  IF CommitBuffers THEN NoRequest ELSE WriteBatchCommitRequest(b)

\* DocumentReference.create/delete/set/update: a batch of one write, committed.
\* The write is tagged with the call whose body issued it (0: no body) and with
\* its place in the order of issue
DocWrite(c, kind) == WriteBatchAppend(WriteBatch, [kind |-> kind, id |-> nextId, by |-> c])

\* An array nothing refers to any more cannot be read again: its contents are
\* dropped. ws is the store's array, held the arrays of the commit requests
\* that are not serialised yet
Collect(h, ws, held) == [a \in Calls |-> IF a = ws \/ a \in held THEN h[a] ELSE <<>>]

HeldBut(c) == {commitArgs[d].writes : d \in {d \in Calls \ {c} : pc[d] = "commitCalled"}}

Held == HeldBut(0)

NoArgs == [writes |-> 0, transaction |-> 0]

\* ----------------------------------------------------------- runTransaction

\* line 30 up to its await: the beginTransaction request is sent
RunTransaction(c) ==
  /\ pc[c] = "idle"
  /\ \A d \in Calls : d < c => pc[d] # "idle"
  /\ pc' = [pc EXCEPT ![c] = "begin"]
  /\ begins' = [begins EXCEPT ![c] = @ + 1]
  /\ overlap' = [d \in Calls |->
                   IF \E o \in Calls \ {c} : Active(o)
                   THEN (d = c \/ Active(d) \/ overlap[d])
                   ELSE overlap[d]]
  /\ ev' = Event("beginTransaction", c, Request(":beginTransaction", 0, FALSE, <<>>), "", Pending)
  /\ UNCHANGED <<transactionSymbol, writesSymbol, heap, commitArgs,
                 bodyRuns, commits, tok, issued, nextId>>
  /\ UNCHANGED <<batchVars, bgVars, refVars, queryVars, tokenVars>>

\* runTransaction without line 31: the store's array is left as it was
BeginResolvedKeepsArray(c) ==
  /\ pc[c] = "begin"
  /\ transactionSymbol' = c
  /\ tok' = [tok EXCEPT ![c] = c]
  /\ bodyRuns' = [bodyRuns EXCEPT ![c] = @ + 1]
  /\ pc' = [pc EXCEPT ![c] = "body"]
  /\ ev' = Event("beginResolved", c, NoRequest, "", Pending)
  /\ UNCHANGED <<writesSymbol, heap, commitArgs, begins, commits, overlap, issued, nextId>>
  /\ UNCHANGED <<batchVars, bgVars, refVars, queryVars, tokenVars>>

\* lines 30-32: the server answered with a token; the token and a new array are
\* stored and the body is called
BeginResolved(c) ==
  /\ pc[c] = "begin"
  /\ transactionSymbol' = c
  /\ tok' = [tok EXCEPT ![c] = c]
  /\ writesSymbol' = c
  /\ heap' = Collect([heap EXCEPT ![c] = <<>>], c, Held)
  /\ bodyRuns' = [bodyRuns EXCEPT ![c] = @ + 1]
  /\ pc' = [pc EXCEPT ![c] = "body"]
  /\ ev' = Event("beginResolved", c, NoRequest, "", Pending)
  /\ UNCHANGED <<commitArgs, begins, commits, overlap, issued, nextId>>
  /\ UNCHANGED <<batchVars, bgVars, refVars, queryVars, tokenVars>>

\* line 30: the beginTransaction request failed; the error leaves runTransaction
BeginRejected(c, e) ==
  /\ pc[c] = "begin"
  /\ pc' = [pc EXCEPT ![c] = "done"]
  /\ ev' = Event("beginRejected", c, NoRequest, e, Rejected(e))
  /\ UNCHANGED <<transactionSymbol, writesSymbol, heap, commitArgs, begins, bodyRuns,
                 commits, tok, overlap, issued, nextId>>
  /\ UNCHANGED <<batchVars, bgVars, refVars, queryVars, tokenVars>>

\* the body reads: firestore.batchGet / doc.get, or query.get
BodyRead(c, kind) ==
  /\ pc[c] = "body"
  /\ ev' = Event(kind, c, ReadRequest(kind), "", Pending)
  /\ UNCHANGED <<transactionSymbol, writesSymbol, heap, pc, commitArgs,
                 begins, bodyRuns, commits, tok, overlap, issued, nextId>>
  /\ UNCHANGED <<batchVars, bgVars, refVars, queryVars, tokenVars>>

\* the body writes: doc.create / set / update / delete
BodyWrite(c, kind) ==
  /\ pc[c] = "body"
  /\ nextId <= MaxWrites
  /\ heap' = WriteBatchCommitHeap(DocWrite(c, kind))
  /\ ev' = Event("write", c, WriteBatchCommitSends(DocWrite(c, kind)), "", Pending)
  /\ issued' = [issued EXCEPT ![c] = @ + 1]
  /\ nextId' = nextId + 1
  /\ UNCHANGED <<transactionSymbol, writesSymbol, pc, commitArgs,
                 begins, bodyRuns, commits, tok, overlap>>
  /\ UNCHANGED <<batchVars, bgVars, refVars, queryVars, tokenVars>>

\* line 32: the body threw (or its promise was rejected); nothing catches it,
\* so lines 33-36 are skipped and runTransaction is rejected with the error
BodyThrows(c, e) ==
  /\ pc[c] = "body"
  /\ pc' = [pc EXCEPT ![c] = "done"]
  /\ ev' = Event("bodyThrows", c, NoRequest, e, Rejected(e))
  /\ UNCHANGED <<transactionSymbol, writesSymbol, heap, commitArgs, begins, bodyRuns,
                 commits, tok, overlap, issued, nextId>>
  /\ UNCHANGED <<batchVars, bgVars, refVars, queryVars, tokenVars>>

\* lines 32-33: the body returned; the commit request's body object is built
\* from the store's array and token, and request() is called
BodyReturns(c) ==
  /\ pc[c] = "body"
  /\ commitArgs' = [commitArgs EXCEPT ![c] =
                      [writes |-> writesSymbol, transaction |-> transactionSymbol]]
  /\ pc' = [pc EXCEPT ![c] = "commitCalled"]
  /\ ev' = Event("bodyReturns", c, NoRequest, "", Pending)
  /\ UNCHANGED <<transactionSymbol, writesSymbol, heap, begins, bodyRuns,
                 commits, tok, overlap, issued, nextId>>
  /\ UNCHANGED <<batchVars, bgVars, refVars, queryVars, tokenVars>>

\* service.ts, request: after the access token is there, the body object is
\* serialised (the array as it is by then) and the commit request is sent
CommitSend(c) ==
  /\ pc[c] = "commitCalled"
  /\ commits' = [commits EXCEPT ![c] = @ + 1]
  /\ pc' = [pc EXCEPT ![c] = "commitSent"]
  /\ ev' = Event("commit", c,
                 Request(":commit", commitArgs[c].transaction, commitArgs[c].writes # 0,
                         IF commitArgs[c].writes # 0 THEN heap[commitArgs[c].writes] ELSE <<>>),
                 "", Pending)
  /\ commitArgs' = [commitArgs EXCEPT ![c] = NoArgs]
  /\ heap' = Collect(heap, writesSymbol, HeldBut(c))
  /\ UNCHANGED <<transactionSymbol, writesSymbol, begins,
                 bodyRuns, tok, overlap, issued, nextId>>
  /\ UNCHANGED <<batchVars, bgVars, refVars, queryVars, tokenVars>>

\* lines 33-36: the commit succeeded; the token and the array are dropped
CommitResolved(c) ==
  /\ pc[c] = "commitSent"
  /\ transactionSymbol' = 0
  /\ writesSymbol' = 0
  /\ pc' = [pc EXCEPT ![c] = "done"]
  /\ ev' = Event("commitResolved", c, NoRequest, "", Resolved)
  /\ heap' = Collect(heap, 0, Held)
  /\ UNCHANGED <<commitArgs, begins, bodyRuns, commits, tok, overlap,
                 issued, nextId>>
  /\ UNCHANGED <<batchVars, bgVars, refVars, queryVars, tokenVars>>

\* a runTransaction that sends its commit again when it failed
CommitRejectedRetries(c, e) ==
  /\ pc[c] = "commitSent"
  /\ pc' = [pc EXCEPT ![c] = "commitCalled"]
  /\ ev' = Event("commitRetried", c, NoRequest, e, Pending)
  /\ UNCHANGED <<transactionSymbol, writesSymbol, heap, commitArgs, begins, bodyRuns,
                 commits, tok, overlap, issued, nextId>>
  /\ UNCHANGED <<batchVars, bgVars, refVars, queryVars, tokenVars>>

\* line 33: the commit request failed; lines 34-36 are skipped
CommitRejected(c, e) ==
  /\ pc[c] = "commitSent"
  /\ pc' = [pc EXCEPT ![c] = "done"]
  /\ ev' = Event("commitRejected", c, NoRequest, e, Rejected(e))
  /\ UNCHANGED <<transactionSymbol, writesSymbol, heap, commitArgs, begins, bodyRuns,
                 commits, tok, overlap, issued, nextId>>
  /\ UNCHANGED <<batchVars, bgVars, refVars, queryVars, tokenVars>>

\* a read issued on the store by code that is in no transaction body
OutsideRead(kind) ==
  /\ ev' = Event(kind, 0, ReadRequest(kind), "", Pending)
  /\ UNCHANGED <<transactionSymbol, writesSymbol, heap, pc, commitArgs,
                 begins, bodyRuns, commits, tok, overlap, issued, nextId>>
  /\ UNCHANGED <<batchVars, bgVars, refVars, queryVars, tokenVars>>

\* ------------------------------------------------- the transaction's claims

Alone(c) == \A d \in Calls \ {c} : ~Active(d)

IsCall(c) == c \in Calls

\* the ids of a list of writes grow from left to right: the order of issue
InIssueOrder(ws) == \A i, j \in 1..Len(ws) : i < j => ws[i].id < ws[j].id

\* C1: once a runTransaction call has settled (resolved or rejected, whatever
\* failed) and no other call is in progress, the store's token and its
\* pending-writes list are both undefined, and a batchGet or a query get issued
\* then is sent without a transaction token.
C1_SettledStoreIsClean ==
  \A c \in Calls :
    (pc[c] = "done" /\ Alone(c)) =>
      /\ transactionSymbol = 0
      /\ writesSymbol = 0
      /\ BatchGetRequest.transaction = 0
      /\ RunQueryRequest.transaction = 0

\* C2: every batchGet and runQuery request issued by the body of a call that no
\* other call overlapped, and that call's commit request, carry the token the
\* call's beginTransaction request returned.
C2_RequestsCarryOwnToken ==
  (IsCall(ev.call) /\ ~overlap[ev.call] /\ ev.op \in ReadKinds \cup {"commit"}) =>
    /\ tok[ev.call] # 0
    /\ ev.req.transaction = tok[ev.call]

\* a call that ran after an earlier call had failed sends its commit with its
\* own token
C2_Witness ==
  /\ ev.op = "commit"
  /\ ev.call = 2
  /\ ~overlap[2]
  /\ tok[1] = 1
  /\ ev.req.transaction = 2

\* C3: when the body throws (no other call in progress), no commit request was
\* sent, no write the body issued is left in the store's pending-writes list,
\* and runTransaction is rejected with the error the body threw.
C3_BodyThrowDiscards ==
  (ev.op = "bodyThrows" /\ ~overlap[ev.call]) =>
    /\ commits[ev.call] = 0
    /\ ev.settled = Rejected(ev.err)
    /\ (writesSymbol = 0 \/ heap[writesSymbol] = <<>>)

C5_SecondTransactionRejected ==
  /\ (ev.op = "beginTransaction" /\ ~Alone(ev.call)) =>
       ev.settled = Rejected("TransactionInProgress")
  /\ \A c, d \in Calls : (Active(c) /\ Active(d)) => c = d

storeButHeap == <<transactionSymbol, writesSymbol, pc, commitArgs, begins, bodyRuns,
                  commits, tok, overlap, issued, nextId>>

\* a write of a batch: the caller may append the same write twice
BatchedWrite(kind) == [kind |-> kind, id |-> 0, by |-> 0]

\* Firestore.batch, lines 39-41: a new WriteBatch at every call
Batch ==
  /\ batch' = [open |-> TRUE, writes |-> WriteBatch, committed |-> FALSE]
  /\ appended' = <<>>
  /\ ev' = Event("batch", 0, NoRequest, "", Pending)
  /\ UNCHANGED <<batchCount, heap, storeButHeap, bgVars, refVars, queryVars, tokenVars>>

\* WriteBatch.create / set / update / delete on the batch the caller holds
BatchWrite(kind) ==
  /\ batch.open
  /\ batchCount < MaxBatchWrites
  /\ batch' = [batch EXCEPT !.writes = WriteBatchAppend(@, BatchedWrite(kind)),
                            !.committed = FALSE]
  /\ appended' = IF batch.committed THEN <<BatchedWrite(kind)>>
                 ELSE Append(appended, BatchedWrite(kind))
  /\ batchCount' = batchCount + 1
  /\ ev' = Event("append", 0, NoRequest, "", Pending)
  /\ UNCHANGED <<heap, storeButHeap, bgVars, refVars, queryVars, tokenVars>>

\* WriteBatch.commit on the batch the caller holds: the writes are sent, or join
\* the store's pending-writes list, and the batch is emptied
BatchCommit ==
  /\ batch.open
  /\ heap' = WriteBatchCommitHeap(batch.writes)
  /\ ev' = Event("batchCommit", 0, WriteBatchCommitSends(batch.writes), "", Pending)
  /\ batch' = [batch EXCEPT !.writes = <<>>, !.committed = TRUE]
  /\ appended' = IF batch.committed THEN <<>> ELSE appended
  /\ UNCHANGED <<batchCount, storeButHeap, bgVars, refVars, queryVars, tokenVars>>

BatchInit ==
  /\ batch = [open |-> FALSE, writes |-> <<>>, committed |-> FALSE]
  /\ appended = <<>>
  /\ batchCount = 0

\* C8: a commit() made while no transaction is in progress on the store sends
\* one commit request with exactly the writes appended to the batch, each once
\* and in the order of the appends; a batch that batch() returns holds no write.
C8_BatchSubmitsOnCommit ==
  /\ ev.op = "batch" => (batch.open /\ batch.writes = <<>>)
  /\ (ev.op = "batchCommit" /\ \A c \in Calls : ~Active(c)) =>
       ev.req = Request(":commit", 0, TRUE, appended)

\* The same when the store holds no pending-writes list, which is so outside a
\* transaction unless a failed one left its list behind:
\* a commit() made while the store holds no pending-writes list sends one
\* commit request with exactly the writes appended to the batch since batch()
\* (or since its last commit), each once and in the order of the appends, and
\* leaves the batch empty; a batch that batch() returns holds no write.
BatchSubmitsAppended ==
  /\ ev.op = "batch" => (batch.open /\ batch.writes = <<>>)
  /\ (ev.op = "batchCommit" /\ ~CommitBuffers) =>
       /\ ev.req = Request(":commit", 0, TRUE, appended)
       /\ batch.writes = <<>>

\* the README's batch: create, update, delete, commit
BatchSubmitsAppendedWitness ==
  /\ ev.op = "batchCommit"
  /\ ~CommitBuffers
  /\ ev.req.writes = <<BatchedWrite("create"), BatchedWrite("update"), BatchedWrite("delete")>>

\* ------------------------------------------------------------ references

\* A string is the sequence of its characters; the paths of this model are
\* written with a letter and the separator
PathChars == {"a", "/"}

RECURSIVE StringsUpTo(_)
StringsUpTo(n) ==
  IF n = 0 THEN {<<>>}
  ELSE LET shorter == StringsUpTo(n - 1)
       IN shorter \cup {Append(t, ch) : t \in {t \in shorter : Len(t) = n - 1}, ch \in PathChars}

\* the path strings a caller passes to a constructor, to doc() and collection()
PathStrings == StringsUpTo(MaxPathLen)
ChildStrings == StringsUpTo(MaxChildLen)

RECURSIVE ListsUpTo(_, _)
ListsUpTo(S, n) ==
  IF n = 0 THEN {<<>>}
  ELSE LET shorter == ListsUpTo(S, n - 1)
       IN shorter \cup {Append(t, x) : t \in {t \in shorter : Len(t) = n - 1}, x \in S}

\* the pre-split paths a caller passes: string[] holds any strings, '' too
SegmentLists == ListsUpTo({<<>>, <<"a">>}, MaxListLen)

\* Firestore.autoId, firestore.ts lines 51-53: createId(20), an identifier of
\* 20 letters and digits
AutoIdLength == 20
AutoIds == {[i \in 1..AutoIdLength |-> ch] : ch \in {"a", "b"}}

\* trim, lines 737-739: path.replace(/^\/|\/$/g, ''): one leading and one
\* trailing separator are removed
trim(path) ==
  LET a == IF path # <<>> /\ Head(path) = "/" THEN Tail(path) ELSE path
  IN IF a # <<>> /\ a[Len(a)] = "/" THEN SubSeq(a, 1, Len(a) - 1) ELSE a

\* String.prototype.split('/'): one piece more than there are separators, the
\* empty pieces kept; ''.split('/') is ['']
RECURSIVE split(_)
split(str) ==
  IF str = <<>> THEN << <<>> >>
  ELSE LET rest == split(Tail(str))
       IN IF Head(str) = "/" THEN << <<>> >> \o rest
          ELSE << <<Head(str)>> \o Head(rest) >> \o Tail(rest)

\* Array.prototype.join('/'): [].join('/') is ''
RECURSIVE join(_)
join(segments) ==
  IF segments = <<>> THEN <<>>
  ELSE IF Len(segments) = 1 THEN segments[1]
  ELSE segments[1] \o <<"/">> \o join(Tail(segments))

\* Array.prototype.filter(Boolean): the empty strings are dropped
filterBoolean(segments) == SelectSeq(segments, LAMBDA x : x # <<>>)

\* Array.prototype.slice(0, -1)
sliceButLast(segments) == SubSeq(segments, 1, Len(segments) - 1)

\* the value of id when there is no last segment: null
Null == <<"null">>

NoReference == [kind |-> "none", segments |-> <<>>, thrown |-> ""]

\* what a constructor that threw leaves its caller with
Thrown(message) == [kind |-> "none", segments |-> <<>>, thrown |-> message]

DocumentKind(segments) == [kind |-> "doc", segments |-> segments, thrown |-> ""]
CollectionKind(segments) == [kind |-> "col", segments |-> segments, thrown |-> ""]

\* DocumentReference's constructor given a segment list, lines 469-470
DocumentReferenceOf(segments) ==
  IF Len(segments) % 2 # 0 THEN Thrown("A document reference must have an even number of segments")
  ELSE DocumentKind(segments)

\* DocumentReference's constructor given a string, line 468: the empty
\* segments are filtered out
DocumentReference(path) == DocumentReferenceOf(filterBoolean(split(trim(path))))

\* CollectionReference's constructor given a segment list, lines 690-694
CollectionReferenceOf(segments) ==
  IF Len(segments) % 2 # 1 THEN Thrown("A collection reference must have an odd number of segments")
  ELSE CollectionKind(segments)

\* CollectionReference's constructor given a string, line 689: no filter
CollectionReference(path) == CollectionReferenceOf(split(trim(path)))

\* Reference's constructor given a segment list, lines 456-460
ReferenceOf(segments) ==
  IF Len(segments) % 2 = 0 THEN DocumentReferenceOf(segments)
  ELSE CollectionReferenceOf(segments)

\* Reference's constructor given a string, line 455: no filter
Reference(path) == ReferenceOf(split(trim(path)))

\* DocumentReference.collection, lines 473-475, and
\* CollectionReference.collection, lines 696-698
collection(r, path) == CollectionReferenceOf(r.segments \o split(trim(path)))

\* CollectionReference.doc, lines 700-703, given the path it is called with
\* or, when that is absent or '', the identifier autoId returned
doc(r, path) == DocumentReferenceOf(r.segments \o split(trim(path)))

\* the getters id, lines 477-479 and 705-707, and path, 481-483 and 709-711
id(r) ==
  IF r.segments = <<>> \/ r.segments[Len(r.segments)] = <<>> THEN Null
  ELSE r.segments[Len(r.segments)]

path(r) == join(r.segments)

\* DocumentReference.parent, lines 489-491
DocumentParent(r) == CollectionReference(join(sliceButLast(split(path(r)))))

\* CollectionReference.parent, lines 717-719
CollectionParent(r) == DocumentReference(join(sliceButLast(split(path(r)))))

\* ------------------------------------------------- batchGet's snapshots

\* Firestore.basePath, firestore.ts line 18
basePath == <<"projects/p/databases/(default)/documents">>

\* the getter qualifiedPath, lines 485-487
qualifiedPath(r) == basePath \o <<"/">> \o join(r.segments)

\* the documents batchGet is asked for
BatchGetDocs == {DocumentKind(<< <<"a">>, name >>) : name \in {<<"a">>, <<"b">>, <<"c">>}}

\* the lists of references a caller passes: a document may be named twice
RefLists == ListsUpTo(BatchGetDocs, MaxRefs)

\* a key that a response element does not have
Undefined == <<>>

\* api.BatchGetResponse: the element of a document the server holds, and of one
\* it does not hold
Found(name, readTime) == [found |-> [name |-> name], missing |-> Undefined, readTime |-> readTime]
Missing(name, readTime) == [found |-> [name |-> Undefined], missing |-> name, readTime |-> readTime]

\* the document of a snapshot that has none: null
NullDocument == [name |-> Null]

Range(f) == {f[i] : i \in DOMAIN f}

\* The responses of the server to a request for documents: one element for each
\* distinct name, in any order, each stamped with its read time
Responses(documents) ==
  LET names == Range(documents)
      n == Cardinality(names)
      orders == {o \in [1..n -> names] : \A i, j \in 1..n : i # j => o[i] # o[j]}
  IN UNION {{[k \in 1..n |-> IF o[k] \in held THEN Found(o[k], k) ELSE Missing(o[k], k)]
              : held \in SUBSET names} : o \in orders}

\* every response the server gives to a request of this model
AllResponses == UNION {Responses([i \in DOMAIN refs |-> qualifiedPath(refs[i])]) : refs \in RefLists}

\* new DocumentSnapshot(ref, doc, readTime): exists tells whether there is a document
DocumentSnapshot(r, document, readTime) ==
  [ref |-> r, exists |-> document # NullDocument, doc |-> document, readTime |-> readTime]

\* line 61: result.missing || result.found.name
docMapKey(result) == IF result.missing # Undefined THEN result.missing ELSE result.found.name

\* lines 59-61: the Map filled in the order of the response, a later element
\* replacing an earlier one of the same key
docMap(response) ==
  [name \in {docMapKey(response[k]) : k \in DOMAIN response} |->
     response[CHOOSE k \in DOMAIN response :
                /\ docMapKey(response[k]) = name
                /\ \A l \in DOMAIN response : docMapKey(response[l]) = name => l <= k]]

\* the snapshots in the order of the response
BatchGetSnapshotsInServerOrder(refs, documents, response) ==
  [i \in DOMAIN documents |->
     LET result == response[IF i \in DOMAIN response THEN i ELSE 1]
         document == IF result.missing # Undefined THEN NullDocument ELSE result.found
     IN DocumentSnapshot(refs[i], document, result.readTime)]

\* lines 62-66: request.documents.map((name, i) => ...): one snapshot for each
\* name of the request, made of refs[i] and of the Map's element for that name
BatchGetSnapshots(refs, documents, response) ==
  [i \in DOMAIN documents |->
     LET result == docMap(response)[documents[i]]
         document == IF result.missing # Undefined THEN NullDocument ELSE result.found
     IN DocumentSnapshot(refs[i], document, result.readTime)]

\* line 63: docMap.get(name) is undefined for a name that no element has, and
\* reading its missing key throws
BatchGetThrows(documents, response) ==
  \E i \in DOMAIN documents : documents[i] \notin DOMAIN docMap(response)

\* Firestore.batchGet, lines 55-58: the request is built and sent
BatchGet(refs) ==
  /\ bgPhase # "sent"
  /\ bgPhase' = "sent"
  /\ bgRefs' = refs
  /\ bgDocuments' = [i \in DOMAIN refs |-> qualifiedPath(refs[i])]
  /\ bgResponse' = <<>>
  /\ bgResult' = <<>>
  /\ ev' = Event("batchGet", 0, BatchGetRequest, "", Pending)
  /\ UNCHANGED <<transactionSymbol, writesSymbol, heap, pc, commitArgs, begins, bodyRuns,
                 commits, tok, overlap, issued, nextId, batchVars, refVars, queryVars, tokenVars>>

\* lines 58-66: the response arrives and the snapshots are returned
BatchGetResolved(response) ==
  /\ bgPhase = "sent"
  /\ response \in Responses(bgDocuments)
  /\ bgResponse' = response
  /\ IF BatchGetThrows(bgDocuments, response)
     THEN /\ bgPhase' = "rejected"
          /\ bgResult' = <<>>
          /\ ev' = Event("batchGetThrew", 0, NoRequest, "TypeError", Rejected("TypeError"))
     ELSE /\ bgPhase' = "done"
          /\ bgResult' = BatchGetSnapshots(bgRefs, bgDocuments, response)
          /\ ev' = Event("batchGetResolved", 0, NoRequest, "", Resolved)
  /\ UNCHANGED <<transactionSymbol, writesSymbol, heap, pc, commitArgs, begins, bodyRuns,
                 commits, tok, overlap, issued, nextId, bgRefs, bgDocuments, batchVars, refVars, queryVars, tokenVars>>

\* line 58: the request fails and batchGet rejects with its error
BatchGetRejected(e) ==
  /\ bgPhase = "sent"
  /\ bgPhase' = "rejected"
  /\ ev' = Event("batchGetRejected", 0, NoRequest, e, Rejected(e))
  /\ UNCHANGED <<transactionSymbol, writesSymbol, heap, pc, commitArgs, begins, bodyRuns,
                 commits, tok, overlap, issued, nextId, bgRefs, bgDocuments, bgResponse,
                 bgResult, batchVars, refVars, queryVars, tokenVars>>

BgInit ==
  /\ bgPhase = "idle"
  /\ bgRefs = <<>>
  /\ bgResponse = <<>>
  /\ bgDocuments = <<>>
  /\ bgResult = <<>>

\* the element of the response that is about the reference r
ResultFor(r) ==
  bgResponse[CHOOSE k \in DOMAIN bgResponse : docMapKey(bgResponse[k]) = qualifiedPath(r)]

\* C7: whatever the order of the server's response, batchGet(refs) returns as
\* many snapshots as refs has references, the i-th made of refs[i] and of the
\* server's result for refs[i]; a document reported missing gives a snapshot
\* with exists = false at its place, and only a failed request makes batchGet
\* reject.
C7_BatchGetInRequestOrder ==
  /\ ev.op # "batchGetThrew"
  /\ bgPhase = "rejected" => ev.op = "batchGetRejected"
  /\ bgPhase = "done" =>
       /\ Len(bgResult) = Len(bgRefs)
       /\ \A i \in 1..Len(bgRefs) :
            LET result == ResultFor(bgRefs[i])
            IN /\ bgResult[i].ref = bgRefs[i]
               /\ bgResult[i].exists = (result.missing = Undefined)
               /\ bgResult[i].exists => bgResult[i].doc.name = qualifiedPath(bgRefs[i])
               /\ bgResult[i].readTime = result.readTime

\* two documents asked for, answered in the other order, the second one missing
C7_Witness ==
  /\ bgPhase = "done"
  /\ Len(bgRefs) = 2
  /\ bgRefs[1] # bgRefs[2]
  /\ docMapKey(bgResponse[1]) = qualifiedPath(bgRefs[2])
  /\ bgResult[1].exists
  /\ ~bgResult[2].exists

\* ------------------------------------------------ building references

RefEvent(op, str, list, from, thrown) ==
  [op |-> op, str |-> str, list |-> list, from |-> from, thrown |-> thrown]

\* the operation op, given the string str or the segment list list and called
\* on the reference from, made the reference made, or threw
Built(made, op, str, list, from) ==
  /\ Len(made.segments) <= MaxSegments
  /\ ref' = made
  /\ refEv' = RefEvent(op, str, list, from, made.thrown)
  /\ UNCHANGED <<txVars, batchVars, bgVars, queryVars, tokenVars>>

\* new Reference(firestore, path) with a string
NewReference(str) ==
  /\ str \in PathStrings
  /\ Built(Reference(str), "Reference", str, <<>>, NoReference)

\* new Reference(firestore, path) with a segment list
NewReferenceOf(list) ==
  /\ list \in SegmentLists
  /\ Built(ReferenceOf(list), "ReferenceOf", <<>>, list, NoReference)

\* Firestore.doc, firestore.ts lines 25-27
FirestoreDoc(str) ==
  /\ str \in PathStrings
  /\ Built(DocumentReference(str), "firestore.doc", str, <<>>, NoReference)

\* Firestore.collection, firestore.ts lines 21-23
FirestoreCollection(str) ==
  /\ str \in PathStrings
  /\ Built(CollectionReference(str), "firestore.collection", str, <<>>, NoReference)

\* DocumentReference.collection on the reference the caller holds
DocCollection(str) ==
  /\ ref.kind = "doc"
  /\ Built(collection(ref, str), "doc.collection", str, <<>>, ref)

\* CollectionReference.collection on the reference the caller holds
CollectionCollection(str) ==
  /\ ref.kind = "col"
  /\ Built(collection(ref, str), "col.collection", str, <<>>, ref)

\* CollectionReference.doc on the reference the caller holds; line 701: a
\* path that is absent or '' is replaced by autoId()
CollectionDoc(str, auto) ==
  /\ ref.kind = "col"
  /\ Built(doc(ref, IF str = <<>> THEN auto ELSE str), "col.doc", str, <<>>, ref)

\* the getter parent of the DocumentReference the caller holds
DocParent ==
  /\ ref.kind = "doc"
  /\ Built(DocumentParent(ref), "doc.parent", <<>>, <<>>, ref)

\* the getter parent of the CollectionReference the caller holds
CollectionParentOf ==
  /\ ref.kind = "col"
  /\ Built(CollectionParent(ref), "col.parent", <<>>, <<>>, ref)

RefInit ==
  /\ ref = NoReference
  /\ refEv = RefEvent("init", <<>>, <<>>, NoReference, "")

\* the segments the specification's path has: no empty segment
Normalized(segments) == filterBoolean(segments)

\* C9: Reference(p), for a string or a segment list p, is a DocumentReference
\* iff the normalized p has an even number of segments and a
\* CollectionReference otherwise, its path is the normalized p, and the
\* zero-length path gives the root document, whose id is none.
C9_ReferenceKindByParity ==
  refEv.op \in {"Reference", "ReferenceOf"} =>
    LET n == IF refEv.op = "Reference" THEN Normalized(split(refEv.str))
             ELSE Normalized(refEv.list)
    IN /\ refEv.thrown = ""
       /\ ref.kind = (IF Len(n) % 2 = 0 THEN "doc" ELSE "col")
       /\ path(ref) = join(n)
       /\ n = <<>> => id(ref) = Null

\* C10: a reference that a constructor other than Reference, a doc(), a
\* collection() or a parent made has the parity of its kind, and
\* firestore.doc(p) and collection.doc(p) fail when p has an even number of
\* segments where an odd one is needed (and the other way round), as do
\* firestore.collection(p) and document.collection(p).
C10_ParityEnforced ==
  LET n == Len(Normalized(split(refEv.str)))
      made == refEv.op \notin {"Reference", "ReferenceOf"}
  IN /\ (made /\ ref.kind = "doc") => Len(Normalized(ref.segments)) % 2 = 0
     /\ (made /\ ref.kind = "col") => Len(Normalized(ref.segments)) % 2 = 1
     /\ (refEv.op = "firestore.doc" /\ n % 2 # 0) => refEv.thrown # ""
     /\ (refEv.op = "firestore.collection" /\ n % 2 # 1) => refEv.thrown # ""
     /\ (refEv.op = "doc.collection" /\ n % 2 # 1) => refEv.thrown # ""
     /\ (refEv.op = "col.doc" /\ refEv.str # <<>> /\ n % 2 # 1) => refEv.thrown # ""

\* whether no segment of the reference is the empty string
NoEmptySegment(r) == \A i \in 1..Len(r.segments) : r.segments[i] # <<>>

\* C11: a reference made from a path string, by a constructor or by doc(),
\* collection() or parent called on a reference that holds no empty segment,
\* holds no empty segment, whatever separators the string has.
C11_NoEmptySegment ==
  (refEv.op \notin {"init", "ReferenceOf"} /\ NoEmptySegment(refEv.from)) => NoEmptySegment(ref)

\* C12: for references that hold no empty segment,
\* the parent of a collection of more than one segment is the document
\* of its segments but the last, the parent of a collection of one segment is
\* none, and the parent of a document is the collection of its segments but
\* the last.
C12_ParentDropsLast ==
  NoEmptySegment(refEv.from) =>
  /\ refEv.op = "col.parent" =>
       ref = (IF Len(refEv.from.segments) > 1
              THEN DocumentKind(sliceButLast(refEv.from.segments))
              ELSE NoReference)
  /\ refEv.op = "doc.parent" => ref = CollectionKind(sliceButLast(refEv.from.segments))

\* ------------------------------------------------------------ query values

\* FieldPath.documentId, line 450
documentId == "__name__"

\* The values a caller passes to where and to the cursor methods: undefined,
\* null, NaN, numbers, strings and an array of strings
JsValues == {"undefined", "null", "NaN", "1", "2", "'a'", "'a/a'", "['a','b']"}

typeOf(value) ==
  CASE value = "undefined" -> "undefined"
    [] value = "null" -> "object"
    [] value \in {"NaN", "1", "2"} -> "number"
    [] value \in {"'a'", "'a/a'"} -> "string"
    [] OTHER -> "array"

\* the characters of a string value, of each string of an array
StringsOf(value) ==
  CASE value = "'a'" -> << <<"a">> >>
    [] value = "'a/a'" -> << <<"a", "/", "a">> >>
    [] value = "['a','b']" -> << <<"a">>, <<"b">> >>
    [] OTHER -> <<>>

\* the collection the queries of this model are made on: firestore.collection('a')
QueryCollection == CollectionReference(<<"a">>)

\* encodeValue of a value that is no reference: the value under its wire type
encodeValue(value) ==
  [wire |-> CASE value = "null" -> "nullValue"
              [] value = "NaN" -> "doubleValue"
              [] value \in {"1", "2"} -> "integerValue"
              [] typeOf(value) = "string" -> "stringValue"
              [] OTHER -> "arrayValue",
   value |-> <<value>>]

\* encodeValue of a DocumentReference and of an array of them
encodeReferences(refs, isArray) ==
  [wire |-> IF isArray THEN "arrayValue" ELSE "referenceValue",
   value |-> [i \in DOMAIN refs |-> qualifiedPath(refs[i])]]

\* comparisonOperators, lines 418-429
comparisonOperators ==
  [o \in {"<", "<=", "==", "!=", ">", ">=", "array-contains", "in", "not-in",
          "array-contains-any"} |->
     CASE o = "<" -> "LESS_THAN"
       [] o = "<=" -> "LESS_THAN_OR_EQUAL"
       [] o = "==" -> "EQUAL"
       [] o = "!=" -> "NOT_EQUAL"
       [] o = ">" -> "GREATER_THAN"
       [] o = ">=" -> "GREATER_THAN_OR_EQUAL"
       [] o = "array-contains" -> "ARRAY_CONTAINS"
       [] o = "in" -> "IN"
       [] o = "not-in" -> "NOT_IN"
       [] OTHER -> "ARRAY_CONTAINS_ANY"]


\* unaryOperators, lines 431-440
unaryOperators ==
  [o \in {"==", "!="} |->
     [v \in {"null", "NaN"} |->
        IF o = "==" THEN (IF v = "null" THEN "IS_NULL" ELSE "IS_NAN")
        ELSE (IF v = "null" THEN "IS_NOT_NULL" ELSE "IS_NOT_NAN")]]

\* inequalityFilters, lines 442-447
inequalityFilters ==
  {"GREATER_THAN", "GREATER_THAN_OR_EQUAL", "LESS_THAN", "LESS_THAN_OR_EQUAL"}

\* api.Filter: a unary filter has no value, a field filter has one
NoValue == [wire |-> "", value |-> <<>>]
UnaryFilter(fieldPath, op) == [kind |-> "unaryFilter", field |-> fieldPath, op |-> op, value |-> NoValue]
FieldFilter(fieldPath, op, encoded) == [kind |-> "fieldFilter", field |-> fieldPath, op |-> op, value |-> encoded]

\* ----------------------------------------------------------- query builders

\* api.Cursor, and the cursor of a query that has none
Cursor(values, before) == [set |-> TRUE, values |-> values, before |-> before]
NoCursor == [set |-> FALSE, values |-> <<>>, before |-> FALSE]

\* a limit or an offset that is not set
NoNumber == -1

\* a projection that is not set
NoSelect == [set |-> FALSE, fields |-> <<>>]

\* QueryOptions of a CollectionReference, line 691: no filter, no ordering
CollectionQuery ==
  [from |-> id(QueryCollection),
   filters |-> <<>>, orderBy |-> <<>>, select |-> NoSelect, limit |-> NoNumber,
   offset |-> NoNumber, startAt |-> NoCursor, endAt |-> NoCursor, reverse |-> FALSE]

\* What a builder method leaves: the Query it returned, the Query it was
\* called on as it is after the call, and what it threw
Returned(this, made) == [thrown |-> "", query |-> made, this |-> this]
Threw(this, message) == [thrown |-> message, query |-> this, this |-> this]

\* lines 559-562: on the document-id field a string, or an array of strings,
\* becomes a DocumentReference, or an array of them, of the query's collection
whereReferences(fieldPath, value) ==
  IF fieldPath = documentId /\ typeOf(value) \in {"string", "array"}
  THEN [i \in DOMAIN StringsOf(value) |-> doc(QueryCollection, StringsOf(value)[i])]
  ELSE <<>>

\* the filter of where without the unary case: every value is encoded
whereFilterOfField(fieldPath, opStr, value) ==
  FieldFilter(fieldPath, comparisonOperators[opStr],
    IF whereReferences(fieldPath, value) # <<>>
    THEN encodeReferences(whereReferences(fieldPath, value), typeOf(value) = "array")
    ELSE encodeValue(value))

\* lines 563-568: the filter of a value that is not undefined
whereFilter(fieldPath, opStr, value) ==
  IF opStr \in {"==", "!="} /\ value \in {"null", "NaN"}
  THEN UnaryFilter(fieldPath, unaryOperators[opStr][value])
  ELSE FieldFilter(fieldPath, comparisonOperators[opStr],
         IF whereReferences(fieldPath, value) # <<>>
         THEN encodeReferences(whereReferences(fieldPath, value), typeOf(value) = "array")
         ELSE encodeValue(value))

\* where that pushes the filter onto the filters of the Query it is called on
whereInPlace(this, fieldPath, opStr, value) ==
  LET refs == whereReferences(fieldPath, value)
  IN IF value = "undefined" THEN Threw(this, "Where value cannot be undefined")
     ELSE IF \E i \in DOMAIN refs : refs[i].thrown # ""
     THEN Threw(this, refs[CHOOSE i \in DOMAIN refs : refs[i].thrown # ""].thrown)
     ELSE LET pushed == [this EXCEPT !.filters = Append(@, whereFilter(fieldPath, opStr, value))]
          IN Returned(pushed, pushed)

\* Query.where, lines 556-570
where(this, fieldPath, opStr, value) ==
  LET refs == whereReferences(fieldPath, value)
  IN IF value = "undefined" THEN Threw(this, "Where value cannot be undefined")
     ELSE IF \E i \in DOMAIN refs : refs[i].thrown # ""
     THEN Threw(this, refs[CHOOSE i \in DOMAIN refs : refs[i].thrown # ""].thrown)
     ELSE Returned(this, [this EXCEPT !.filters = Append(@, whereFilter(fieldPath, opStr, value))])

\* Query.select, lines 572-578: no field given selects the document id
select(this, fieldPaths) ==
  Returned(this, [this EXCEPT !.select =
    [set |-> TRUE, fields |-> IF fieldPaths = <<>> THEN <<documentId>> ELSE fieldPaths]])

\* directionOperators, lines 413-416; a direction that is not given is undefined
directionOperators(directionStr) ==
  CASE directionStr = "asc" -> "ASCENDING"
    [] directionStr = "desc" -> "DESCENDING"
    [] OTHER -> "undefined"

\* orderBy that puts the new clause in front of the others
orderByInFront(this, fieldPath, directionStr) ==
  Returned(this, [this EXCEPT !.orderBy =
    <<[field |-> fieldPath, direction |-> directionOperators(directionStr)]>> \o @])

\* Query.orderBy, lines 580-585
orderBy(this, fieldPath, directionStr) ==
  Returned(this, [this EXCEPT !.orderBy =
    Append(@, [field |-> fieldPath, direction |-> directionOperators(directionStr)])])

\* limit that spreads the whole options object, reverse included
limitKeepsReverse(this, n) == Returned(this, [this EXCEPT !.limit = n])

\* Query.limit, lines 587-590: the reverse key is left out
limit(this, n) == Returned(this, [this EXCEPT !.limit = n, !.reverse = FALSE])

\* Query.limitToLast, lines 592-594
limitToLast(this, n) == Returned(this, [this EXCEPT !.limit = n, !.reverse = TRUE])

\* Query.offset, lines 596-598
offset(this, n) == Returned(this, [this EXCEPT !.offset = n])

\* ------------------------------------------------------------------ cursors

\* the snapshots a caller passes to a cursor method: of the document a/a,
\* which holds the field x or no field
CursorSnapshots == {"snapshot{x:1}", "snapshot{}"}

\* DocumentSnapshot.ref of those snapshots
SnapshotRef == doc(QueryCollection, <<"a">>)

\* DocumentSnapshot.get: the stored value, undefined when the field is absent
SnapshotGet(snapshot, fieldPath) ==
  IF snapshot = "snapshot{x:1}" /\ fieldPath = "x" THEN "1" ELSE "undefined"

\* line 751 (and line 638): o.field === FieldPath.documentId compares the
\* object { fieldPath } with a string, which no ordering clause equals
FieldIsDocumentId(order) == FALSE

\* the first filter that is a field filter of an inequality, lines 744-749
FirstInequality(filters) ==
  LET hits == {i \in DOMAIN filters :
                 filters[i].kind = "fieldFilter" /\ filters[i].op \in inequalityFilters}
  IN IF hits = {} THEN 0 ELSE CHOOSE i \in hits : \A j \in hits : i <= j

\* getFieldOrders, lines 741-755; the clause of an inequality filter and the
\* clause of the document id have no direction
getFieldOrders(query) ==
  LET given == query.orderBy
      first == FirstInequality(query.filters)
      fieldOrders ==
        IF given = <<>> /\ first # 0
        THEN <<[field |-> query.filters[first].field, direction |-> "undefined"]>>
        ELSE given
  IN IF \E i \in DOMAIN fieldOrders : FieldIsDocumentId(fieldOrders[i])
     THEN fieldOrders
     ELSE Append(fieldOrders, [field |-> documentId, direction |-> "undefined"])

\* extractFieldValues, lines 757-777: the snapshot's reference for the
\* document id, its value for any other field; undefined marks the throw
extractFieldValues(snapshot, fieldOrders) ==
  [i \in DOMAIN fieldOrders |->
     IF fieldOrders[i].field = documentId THEN "snapshot.ref"
     ELSE SnapshotGet(snapshot, fieldOrders[i].field)]

\* encodeValue of a resolved cursor value
encodeCursorValue(value) ==
  IF value = "snapshot.ref" THEN encodeReferences(<<SnapshotRef>>, FALSE) ELSE encodeValue(value)

\* What createCursor leaves: the cursor, or what it threw
CursorMade(cursor) == [thrown |-> "", cursor |-> cursor]
CursorThrew(message) == [thrown |-> message, cursor |-> NoCursor]

\* createCursor that encodes a value without looking whether it is undefined
createCursorOfAny(query, args, before) ==
  LET fieldOrders == getFieldOrders(query)
      isSnapshot == Len(args) = 1 /\ args[1] \in CursorSnapshots
      extracted == IF isSnapshot THEN extractFieldValues(args[1], fieldOrders) ELSE <<>>
      fieldValues == IF isSnapshot THEN extracted ELSE args
  IN IF Len(fieldValues) > Len(fieldOrders)
     THEN CursorThrew("Too many cursor values specified")
     ELSE CursorMade(Cursor([i \in DOMAIN fieldValues |-> encodeCursorValue(fieldValues[i])], before))

\* Query[createCursorSymbol], lines 616-649
createCursor(query, args, before) ==
  LET fieldOrders == getFieldOrders(query)
      isSnapshot == Len(args) = 1 /\ args[1] \in CursorSnapshots
      extracted == IF isSnapshot THEN extractFieldValues(args[1], fieldOrders) ELSE <<>>
      fieldValues == IF isSnapshot THEN extracted ELSE args
  IN IF isSnapshot /\ \E i \in DOMAIN extracted : extracted[i] = "undefined"
     THEN CursorThrew("Field is missing in the provided DocumentSnapshot")
     ELSE IF Len(fieldValues) > Len(fieldOrders)
     THEN CursorThrew("Too many cursor values specified")
     ELSE IF \E i \in DOMAIN fieldValues : fieldValues[i] = "undefined"
     THEN CursorThrew("A cursor value must be provided")
     ELSE CursorMade(Cursor([i \in DOMAIN fieldValues |-> encodeCursorValue(fieldValues[i])], before))

\* a cursor method: the query with the cursor under the key, or the throw
WithCursor(this, key, made) ==
  IF made.thrown # "" THEN Threw(this, made.thrown)
  ELSE Returned(this, IF key = "startAt" THEN [this EXCEPT !.startAt = made.cursor]
                      ELSE [this EXCEPT !.endAt = made.cursor])

\* Query.startAt, lines 600-602
startAt(this, args) == WithCursor(this, "startAt", createCursor(this, args, TRUE))

\* Query.startAfter, lines 604-606
startAfter(this, args) == WithCursor(this, "startAt", createCursor(this, args, FALSE))

\* Query.endAt, lines 608-610
endAt(this, args) == WithCursor(this, "endAt", createCursor(this, args, TRUE))

\* Query.endAfter, lines 612-614
endAfter(this, args) == WithCursor(this, "endAt", createCursor(this, args, FALSE))

\* Query has no member endBefore, lines 549-682: the call throws a TypeError
endBefore(this, args) == Threw(this, "TypeError: endBefore is not a function")

\* ---------------------------------------------------------------- Query.get

\* lines 653-657: no filter leaves where out, one filter is used as it is,
\* more are wrapped in an AND
whereOf(filters) ==
  [kind |-> IF Len(filters) > 1 THEN "compositeFilter"
            ELSE IF Len(filters) = 1 THEN "filter" ELSE "",
   op |-> IF Len(filters) > 1 THEN "AND" ELSE "",
   filters |-> filters]

\* line 664 without the flip: the direction is kept
flipDirectionKept(direction) == direction

\* line 664: the direction of a clause of a reversed query
flipDirection(direction) == IF direction = "DESCENDING" THEN "ASCENDING" ELSE "DESCENDING"

\* line 666: query.startAt of a reversed query
reversedStartAt(query) ==
  IF query.endAt.set THEN Cursor(query.endAt.values, ~query.endAt.before) ELSE NoCursor

\* line 667 with a start cursor kept aside before line 666 overwrites it
reversedEndAtOfStart(query) ==
  IF query.startAt.set THEN Cursor(query.startAt.values, ~query.startAt.before) ELSE NoCursor

\* line 667: query.endAt of a reversed query, read from the query.startAt
\* that line 666 has just assigned
reversedEndAt(query) ==
  LET assigned == reversedStartAt(query)
  IN IF assigned.set THEN Cursor(assigned.values, ~assigned.before) ELSE NoCursor

\* lines 652-668: the structured query get() sends; a key whose value is
\* undefined is left out by JSON.stringify, as is a cursor that is not set
structuredQuery(query) ==
  [from |-> query.from,
   where |-> whereOf(query.filters),
   orderBy |-> IF query.reverse
               THEN [i \in DOMAIN query.orderBy |->
                       [field |-> query.orderBy[i].field,
                        direction |-> flipDirection(query.orderBy[i].direction)]]
               ELSE query.orderBy,
   select |-> query.select,
   limit |-> query.limit,
   offset |-> query.offset,
   startAt |-> IF query.reverse THEN reversedStartAt(query) ELSE query.startAt,
   endAt |-> IF query.reverse THEN reversedEndAt(query) ELSE query.endAt]

\* lines 659-661 left out: get() never throws before its request
getThrowsNever(query) == FALSE

\* lines 659-661: a reversed query without ordering clause
getThrows(query) == query.reverse /\ query.orderBy = <<>>

\* line 669: the request, sent to the parent of the collection with the
\* store's token
RunQuery(query) ==
  [path |-> path(CollectionParent(QueryCollection)) \o <<":runQuery">>,
   structuredQuery |-> structuredQuery(query),
   transaction |-> transactionSymbol]

NoRunQuery ==
  [path |-> <<>>, structuredQuery |-> structuredQuery(CollectionQuery), transaction |-> 0]

\* get() that flips the directions and swaps the cursors in the options of the
\* Query itself
getInPlace(this) ==
  [this |-> IF this.reverse /\ ~getThrows(this)
            THEN [this EXCEPT !.orderBy = structuredQuery(this).orderBy,
                              !.startAt = structuredQuery(this).startAt,
                              !.endAt = structuredQuery(this).endAt]
            ELSE this,
   thrown |-> IF getThrows(this)
              THEN "limitToLast() queries require specifying at least one orderBy() clause"
              ELSE "",
   request |-> IF getThrows(this) THEN NoRunQuery ELSE RunQuery(this)]

\* Query.get up to its await, lines 651-671: line 652 copies the options, and
\* where, orderBy and the cursors are assigned to the copy. What the call
\* leaves: the Query it was called on, what it threw, the request it sent
get(this) ==
  [this |-> this,
   thrown |-> IF getThrows(this)
              THEN "limitToLast() queries require specifying at least one orderBy() clause"
              ELSE "",
   request |-> IF getThrows(this) THEN NoRunQuery ELSE RunQuery(this)]

\* line 676: response.reverse()
RECURSIVE Reverse(_)
Reverse(seq) == IF seq = <<>> THEN <<>> ELSE Append(Reverse(Tail(seq)), Head(seq))

\* a QuerySnapshot, and the result of a get() that returned none
QuerySnapshot(readTime, size, docs) == [readTime |-> readTime, size |-> size, docs |-> docs]
NoSnapshot == QuerySnapshot("", 0, <<>>)

\* lines 673-674: what get() throws on a response: response[0] of an empty
\* response is undefined and reading its readTime throws
responseThrows(response) ==
  IF response = <<>> THEN "TypeError"
  ELSE IF response[1] = "error" THEN "error.message" ELSE ""

\* lines 673-680: the snapshot get() returns; an element of the response holds
\* a document (doc1, doc2), or only the read time, or the count of skipped
\* results, or an error
snapshotOf(query, response) ==
  LET shifted == IF response[1] = "skipped" THEN Tail(response) ELSE response
      ordered == IF query.reverse THEN Reverse(shifted) ELSE shifted
  IN QuerySnapshot("readTime of " \o response[1], Len(ordered),
                   SelectSeq(ordered, LAMBDA e : e \in {"doc1", "doc2"}))

\* -------------------------------------------------- the caller of a query

Fields == {"x", documentId}

QueryCall(op, fieldPath, opStr, args, n, thrown) ==
  [op |-> op, field |-> fieldPath, opStr |-> opStr, args |-> args, n |-> n, thrown |-> thrown]

GetState(phase, thrown, request, response, result) ==
  [phase |-> phase, thrown |-> thrown, request |-> request, response |-> response,
   result |-> result]

NoGet == GetState("idle", "", NoRunQuery, <<>>, NoSnapshot)

\* A builder method was called on the Query the caller holds: the caller holds
\* what it returned, or what it held when the method threw
Build(result, op, fieldPath, opStr, args, n) ==
  /\ qGet.phase # "sent"
  /\ qBuilt < MaxBuilds
  /\ qBuilt' = qBuilt + 1
  /\ qThis' = result.this
  /\ qHeld' = IF result.thrown = "" THEN result.query ELSE result.this
  /\ qCall' = QueryCall(op, fieldPath, opStr, args, n, result.thrown)
  /\ qGet' = NoGet
  /\ UNCHANGED <<txVars, batchVars, bgVars, refVars, tokenVars>>

Where(fieldPath, opStr, value) ==
  /\ fieldPath \in Fields
  /\ Build(where(qHeld, fieldPath, opStr, value), "where", fieldPath, opStr, <<value>>, NoNumber)

\* where with any arguments, as the last call of the caller
WhereLast(fieldPath, opStr, value) ==
  /\ qBuilt = MaxBuilds - 1
  /\ Where(fieldPath, opStr, value)

Select(fieldPaths) ==
  /\ Len(fieldPaths) <= 1
  /\ Build(select(qHeld, fieldPaths), "select", "", "", fieldPaths, NoNumber)

OrderBy(fieldPath, directionStr) ==
  /\ fieldPath \in Fields
  /\ Build(orderBy(qHeld, fieldPath, directionStr), "orderBy", fieldPath, directionStr, <<>>, NoNumber)

Limit(n) ==
  /\ n > 0
  /\ Build(limit(qHeld, n), "limit", "", "", <<>>, n)

LimitToLast(n) ==
  /\ n > 0
  /\ Build(limitToLast(qHeld, n), "limitToLast", "", "", <<>>, n)

Offset(n) ==
  /\ n > 0
  /\ Build(offset(qHeld, n), "offset", "", "", <<>>, n)

StartAt(args) ==
  /\ Len(args) <= 3
  /\ Build(startAt(qHeld, args), "startAt", "", "", args, NoNumber)

StartAfter(args) ==
  /\ Len(args) <= 3
  /\ Build(startAfter(qHeld, args), "startAfter", "", "", args, NoNumber)

EndAt(args) ==
  /\ Len(args) <= 3
  /\ Build(endAt(qHeld, args), "endAt", "", "", args, NoNumber)

EndAfter(args) ==
  /\ Len(args) <= 3
  /\ Build(endAfter(qHeld, args), "endAfter", "", "", args, NoNumber)

EndBefore(args) ==
  /\ Len(args) <= 3
  /\ Build(endBefore(qHeld, args), "endBefore", "", "", args, NoNumber)

\* get() is called on the Query the caller holds: the request is sent, or
\* get() rejects before it sends one. The call is marked 1 when it is the first
\* get() since the Query was built and 2 when it follows another
Get ==
  /\ qGet.phase # "sent"
  /\ qGet' = IF get(qHeld).thrown # ""
             THEN GetState("rejected", get(qHeld).thrown, NoRunQuery, <<>>, NoSnapshot)
             ELSE GetState("sent", "", get(qHeld).request, <<>>, NoSnapshot)
  /\ qHeld' = get(qHeld).this
  /\ qThis' = get(qHeld).this
  /\ qCall' = QueryCall("get", "", "", <<>>, IF qCall.op = "get" THEN 2 ELSE 1, "")
  /\ UNCHANGED <<qBuilt, txVars, batchVars, bgVars, refVars, tokenVars>>

\* lines 673-680: the response arrives
GetResolved(response) ==
  /\ qGet.phase = "sent"
  /\ qGet' = IF responseThrows(response) # ""
             THEN GetState("rejected", responseThrows(response), qGet.request, response, NoSnapshot)
             ELSE GetState("done", "", qGet.request, response, snapshotOf(qHeld, response))
  /\ UNCHANGED <<qHeld, qThis, qCall, qBuilt, txVars, batchVars, bgVars, refVars, tokenVars>>

\* line 669: the request fails
GetRejected(e) ==
  /\ qGet.phase = "sent"
  /\ qGet' = GetState("rejected", e, qGet.request, <<>>, NoSnapshot)
  /\ UNCHANGED <<qHeld, qThis, qCall, qBuilt, txVars, batchVars, bgVars, refVars, tokenVars>>

QueryInit ==
  /\ qHeld = CollectionQuery
  /\ qThis = CollectionQuery
  /\ qCall = QueryCall("init", "", "", <<>>, NoNumber, "")
  /\ qBuilt = 0
  /\ qGet = NoGet

\* the arguments the callers of a query pass
QueryWheres == {<<"x", ">", "1">>, <<"x", "==", "null">>}
QueryOrders == {<<"x", "undefined">>, <<"x", "asc">>, <<"x", "desc">>, <<documentId, "asc">>}
QueryLimits == {1, 2}
QueryCursorArgs == {<<"1">>, <<"snapshot{x:1}">>}
QueryResponses == {<<"readTime">>, <<"doc1", "doc2">>, <<"skipped", "doc2", "doc1">>}

\* ------------------------------------------------ claims about the builders

\* the methods the specification lists as builders
BuilderMethods ==
  {"where", "select", "orderBy", "limit", "limitToLast", "offset",
   "startAt", "startAfter", "endAt", "endBefore"}

\* what a builder throws when it rejects its arguments
ArgumentErrors ==
  {"Where value cannot be undefined",
   "A document reference must have an even number of segments",
   "Field is missing in the provided DocumentSnapshot",
   "Too many cursor values specified",
   "A cursor value must be provided"}

\* a step that is a call of a builder method
BuilderCall == qBuilt' # qBuilt

\* Every builder method leaves the Query it is called on as it was: the frame
\* half of C13, which holds of the methods the class has.
BuildersLeaveReceiver == [][BuilderCall => qThis' = qHeld]_vars

\* C13: every builder method (where, select, orderBy, limit, limitToLast,
\* offset, startAt, startAfter, endAt, endBefore) returns a new Query, unless
\* it rejects its arguments, and leaves the Query it was called on unchanged.
C13_BuildersReturnNewQuery ==
  [][(BuilderCall /\ qCall'.op \in BuilderMethods) =>
       /\ qThis' = qHeld
       /\ qCall'.thrown \in ArgumentErrors \cup {""}]_vars

\* the unary operator the specification gives for op and value
C14_UnaryOp(opStr, value) ==
  CASE opStr = "==" /\ value = "null" -> "IS_NULL"
    [] opStr = "==" /\ value = "NaN" -> "IS_NAN"
    [] opStr = "!=" /\ value = "null" -> "IS_NOT_NULL"
    [] opStr = "!=" /\ value = "NaN" -> "IS_NOT_NAN"
    [] OTHER -> ""

\* the field filter operator the specification gives for op
C14_FieldOp(opStr) ==
  CASE opStr = "<" -> "LESS_THAN"
    [] opStr = "<=" -> "LESS_THAN_OR_EQUAL"
    [] opStr = "==" -> "EQUAL"
    [] opStr = "!=" -> "NOT_EQUAL"
    [] opStr = ">" -> "GREATER_THAN"
    [] opStr = ">=" -> "GREATER_THAN_OR_EQUAL"
    [] opStr = "array-contains" -> "ARRAY_CONTAINS"
    [] opStr = "in" -> "IN"
    [] opStr = "not-in" -> "NOT_IN"
    [] opStr = "array-contains-any" -> "ARRAY_CONTAINS_ANY"
    [] OTHER -> ""

\* where(f, op, v) appended the filter the specification gives, and no other
C14_Appended(fieldPath, opStr, value) ==
  /\ qCall'.thrown = ""
  /\ Len(qHeld'.filters) = Len(qHeld.filters) + 1
  /\ SubSeq(qHeld'.filters, 1, Len(qHeld.filters)) = qHeld.filters
  /\ LET filter == qHeld'.filters[Len(qHeld'.filters)]
     IN /\ filter.field = fieldPath
        /\ IF C14_UnaryOp(opStr, value) # ""
           THEN filter.kind = "unaryFilter" /\ filter.op = C14_UnaryOp(opStr, value)
           ELSE filter.kind = "fieldFilter" /\ filter.op = C14_FieldOp(opStr)

\* where(f, op, v) failed and appended nothing
C14_Failed(messages) ==
  /\ qCall'.thrown \in messages
  /\ qHeld' = qHeld

\* where is given a string, or an array of strings, for the document id, and
\* doc() of the query's collection rejects one of the strings
C14_DocRejects(fieldPath, value) ==
  /\ fieldPath = documentId
  /\ \E i \in DOMAIN StringsOf(value) : doc(QueryCollection, StringsOf(value)[i]).thrown # ""

\* a step that is a call of where
WhereCall == BuilderCall /\ qCall'.op = "where"

\* C14 as stated: where(f, op, v) with op in {'==','!='} and v null or NaN
\* appends a unary filter on f (IS_NULL, IS_NAN, IS_NOT_NULL, IS_NOT_NAN),
\* never a field filter; every other (op, v) with v defined appends a field
\* filter with the mapped operator; v undefined fails and appends nothing.
C14_WhereFilterAsStated ==
  [][WhereCall =>
       IF qCall'.args[1] = "undefined"
       THEN C14_Failed({"Where value cannot be undefined"})
       ELSE C14_Appended(qCall'.field, qCall'.opStr, qCall'.args[1])]_vars

\* C14, amended: as stated, except that a where on the document-id field whose
\* string operand (or one string of its array operand) is rejected by doc() of
\* the query's collection fails with doc()'s error and appends nothing.
C14_WhereFilter ==
  [][WhereCall =>
       IF qCall'.args[1] = "undefined"
       THEN C14_Failed({"Where value cannot be undefined"})
       ELSE IF C14_DocRejects(qCall'.field, qCall'.args[1])
       THEN C14_Failed({"A document reference must have an even number of segments"})
       ELSE C14_Appended(qCall'.field, qCall'.opStr, qCall'.args[1])]_vars

\* where('x', '!=', NaN) has appended IS_NOT_NAN behind other filters
C14_Witness ==
  /\ qCall.op = "where" /\ qCall.opStr = "!=" /\ qCall.args = <<"NaN">> /\ qCall.thrown = ""
  /\ Len(qHeld.filters) = MaxBuilds
  /\ qHeld.filters[Len(qHeld.filters)] = UnaryFilter("x", "IS_NOT_NAN")

\* the cursor methods the specification lists
CursorMethods == {"startAt", "startAfter", "endAt", "endBefore"}

\* a step that is a call of one of them
CursorCall == BuilderCall /\ qCall'.op \in CursorMethods

\* the call is given literal values, not a document snapshot
LiteralValues(args) == ~(Len(args) = 1 /\ args[1] \in CursorSnapshots)

\* C15: startAt, startAfter, endAt and endBefore fail whenever more cursor
\* values are supplied than the query has ordering clauses (one orderBy and
\* two values in particular), and no new Query is produced.
C15_TooManyValuesFail ==
  [][(CursorCall /\ LiteralValues(qCall'.args) /\ Len(qCall'.args) > Len(qHeld.orderBy)) =>
       /\ qCall'.thrown # ""
       /\ qHeld' = qHeld]_vars

\* the cursor methods the class Query has
ClassCursorMethods == {"startAt", "startAfter", "endAt", "endAfter"}

\* a step that is a call of one of them
ClassCursorCall == BuilderCall /\ qCall'.op \in ClassCursorMethods

\* a literal value of the list is undefined
C16_HasUndefined(args) ==
  LiteralValues(args) /\ \E i \in DOMAIN args : args[i] = "undefined"

\* the fields of the ordering clauses of a query: those of its orderBy, or
\* without any the field of its first inequality filter
C16_OrderingFields(query) ==
  IF query.orderBy # <<>> THEN [i \in DOMAIN query.orderBy |-> query.orderBy[i].field]
  ELSE IF FirstInequality(query.filters) # 0
  THEN <<query.filters[FirstInequality(query.filters)].field>>
  ELSE <<>>

\* the cursor is a snapshot that lacks a field of an ordering clause
C16_SnapshotLacks(query, args) ==
  /\ ~LiteralValues(args)
  /\ \E i \in DOMAIN C16_OrderingFields(query) :
       /\ C16_OrderingFields(query)[i] # documentId
       /\ SnapshotGet(args[1], C16_OrderingFields(query)[i]) = "undefined"

\* the call failed and produced no Query
C16_Fails == qCall'.thrown # "" /\ qHeld' = qHeld

\* the cursor the call has stored
C16_Stored ==
  IF qCall'.op \in {"startAt", "startAfter"} THEN qHeld'.startAt ELSE qHeld'.endAt

\* the call produced a cursor of one encoded value per supplied value, in the
\* order of the ordering clauses
C16_Produced(query, args) ==
  /\ qCall'.thrown = ""
  /\ C16_Stored.set
  /\ IF LiteralValues(args)
     THEN C16_Stored.values = [i \in DOMAIN args |-> encodeValue(args[i])]
     ELSE /\ Len(C16_Stored.values) >= Len(C16_OrderingFields(query))
          /\ \A i \in DOMAIN C16_OrderingFields(query) :
               C16_Stored.values[i] =
                 IF C16_OrderingFields(query)[i] = documentId
                 THEN encodeReferences(<<SnapshotRef>>, FALSE)
                 ELSE encodeValue(SnapshotGet(args[1], C16_OrderingFields(query)[i]))

C17_Before(op) == op \in {"startAt", "endBefore"}

\* C17: the Query has the four cursor methods startAt, startAfter, endAt and
\* endBefore, and the cursor each one stores is determined by the method:
\* startAt and startAfter set the start cursor, endAt and endBefore the end
\* cursor, with before=true for startAt and endBefore and before=false for
\* startAfter and endAt.
C17_CursorByMethod ==
  [][CursorCall =>
       /\ qCall'.thrown # "TypeError: endBefore is not a function"
       /\ qCall'.thrown = "" =>
            IF qCall'.op \in {"startAt", "startAfter"}
            THEN /\ qHeld'.startAt.set
                 /\ qHeld'.startAt.before = C17_Before(qCall'.op)
                 /\ qHeld'.endAt = qHeld.endAt
            ELSE /\ qHeld'.endAt.set
                 /\ qHeld'.endAt.before = C17_Before(qCall'.op)
                 /\ qHeld'.startAt = qHeld.startAt]_vars

\* ---------------------------------------------------- claims about get()

\* a step in which get() is called
GetCall == qBuilt' = qBuilt /\ qGet.phase # "sent" /\ qGet' # qGet

\* C18: get() on a query whose reverse (limitToLast) flag is set and that has no
\* orderBy clause fails before any request is sent: no runQuery request is
\* made and the store's state is unchanged.
C18_LimitToLastNeedsOrderBy ==
  [][(GetCall /\ qHeld.reverse /\ qHeld.orderBy = <<>>) =>
       /\ qGet'.phase = "rejected"
       /\ qGet'.thrown = "limitToLast() queries require specifying at least one orderBy() clause"
       /\ qGet'.request = NoRunQuery
       /\ UNCHANGED <<txVars, batchVars, qHeld>>]_vars

\* get() of limitToLast(2) on a filtered query without orderBy was rejected
C18_Witness ==
  /\ qGet.phase = "rejected"
  /\ qGet.request = NoRunQuery
  /\ qHeld.reverse /\ qHeld.limit = 2
  /\ qHeld.orderBy = <<>>
  /\ qHeld.filters # <<>>

\* orderBy('x','asc').limitToLast(n) and orderBy('x','desc').limit(n)
C19_LimitToLast(n) == limitToLast(orderBy(CollectionQuery, "x", "asc").query, n).query
C19_Limit(n) == limit(orderBy(CollectionQuery, "x", "desc").query, n).query

\* one sequence is the other read from its end
C19_Reversed(docs, others) ==
  /\ Len(docs) = Len(others)
  /\ \A i \in DOMAIN docs : docs[i] = others[Len(others) + 1 - i]

\* C19: for every n and every response, get() on
\* orderBy('x','asc').limitToLast(n) sends the structured query that get() on
\* orderBy('x','desc').limit(n) sends, and returns the documents that query
\* returns for the response, in reversed order.
C19_LimitToLastIsReversedLimit ==
  \A n \in QueryLimits :
    (qHeld = C19_LimitToLast(n) /\ qGet.phase \in {"sent", "done"}) =>
      /\ qGet.request = RunQuery(C19_Limit(n))
      /\ qGet.phase = "done" =>
           /\ C19_Reversed(qGet.result.docs, snapshotOf(C19_Limit(n), qGet.response).docs)
           /\ qGet.result.size = snapshotOf(C19_Limit(n), qGet.response).size

\* get() of orderBy('x','asc').limitToLast(2) got doc2, doc1 behind a count of
\* skipped results and returned doc1, doc2
C19_Witness ==
  /\ qHeld = C19_LimitToLast(2)
  /\ qGet.phase = "done"
  /\ qGet.response = <<"skipped", "doc2", "doc1">>
  /\ qGet.result.docs = <<"doc1", "doc2">>

\* C20: when get() runs a query with the reverse flag set, the structured
\* query sent has every ordering clause's direction flipped, its startAt equal
\* to the query's end cursor with the before flag negated (absent without end
\* cursor) and its endAt equal to the query's start cursor with the before
\* flag negated (absent without start cursor).
C20_ReverseSwapsCursors ==
  (qGet.phase \in {"sent", "done"} /\ qHeld.reverse) =>
    LET sent == qGet.request.structuredQuery
    IN /\ Len(sent.orderBy) = Len(qHeld.orderBy)
       /\ \A i \in DOMAIN sent.orderBy :
            /\ sent.orderBy[i].field = qHeld.orderBy[i].field
            /\ sent.orderBy[i].direction =
                 (IF qHeld.orderBy[i].direction = "DESCENDING" THEN "ASCENDING" ELSE "DESCENDING")
       /\ sent.startAt =
            (IF qHeld.endAt.set THEN Cursor(qHeld.endAt.values, ~qHeld.endAt.before) ELSE NoCursor)
       /\ sent.endAt = reversedEndAtOfStart(qHeld)

\* C21: if any element of a runQuery response carries an error, at whatever
\* position and also when no element holds a document, get() rejects with
\* that error's message and returns no snapshot; a leading skipped-results
\* marker is dropped and is neither counted nor returned as a document.
C21_AnyErrorRejects ==
  (qGet.phase \in {"done", "rejected"} /\ qGet.response # <<>>) =>
    IF \E i \in DOMAIN qGet.response : qGet.response[i] = "error"
    THEN /\ qGet.phase = "rejected"
         /\ qGet.thrown = "error.message"
         /\ qGet.result = NoSnapshot
    ELSE /\ qGet.phase = "done"
         /\ qGet.response[1] = "skipped" =>
              /\ qGet.result.size = Len(qGet.response) - 1
              /\ \A i \in DOMAIN qGet.result.docs : qGet.result.docs[i] # "skipped"

\* C22: after any sequence of builder calls the reverse flag is set if and
\* only if the most recent call among limit and limitToLast was limitToLast,
\* and the limit is the argument of that call; no other builder method changes
\* the reverse flag or the limit. A query no builder was called on has neither.
C22_ReverseFollowsLastLimit ==
  /\ ~qHeld.reverse /\ qHeld.limit = NoNumber
  /\ [][BuilderCall =>
          IF qCall'.op = "limit"
          THEN qCall'.thrown = "" /\ qHeld'.limit = qCall'.n /\ ~qHeld'.reverse
          ELSE IF qCall'.op = "limitToLast"
          THEN qCall'.thrown = "" /\ qHeld'.limit = qCall'.n /\ qHeld'.reverse
          ELSE qHeld'.limit = qHeld.limit /\ qHeld'.reverse = qHeld.reverse]_vars

\* limit(1) was called on a limitToLast(2) query and cleared the flag
C22_Witness ==
  /\ qCall.op = "limit" /\ qCall.n = 1
  /\ qThis.reverse /\ qThis.limit = 2
  /\ ~qHeld.reverse /\ qHeld.limit = 1

\* a step of orderBy has appended one clause of the field and the direction
\* behind the clauses the query had; a step of another builder has left the
\* list as it was
C23_Appended(direction) ==
  IF qCall'.op = "orderBy"
  THEN /\ qCall'.thrown = ""
       /\ Len(qHeld'.orderBy) = Len(qHeld.orderBy) + 1
       /\ SubSeq(qHeld'.orderBy, 1, Len(qHeld.orderBy)) = qHeld.orderBy
       /\ qHeld'.orderBy[Len(qHeld'.orderBy)] = [field |-> qCall'.field, direction |-> direction]
  ELSE qHeld'.orderBy = qHeld.orderBy

\* C23 as stated: orderBy(field, dir) appends exactly one ordering clause at
\* the end of the ordering list and leaves the earlier clauses and their order
\* unchanged; with dir omitted the appended clause has ascending direction; so
\* after k orderBy calls the list is the k (field, direction) pairs in call
\* order.
C23_OrderByAppendsAsStated ==
  /\ qHeld.orderBy = <<>>
  /\ [][BuilderCall =>
          C23_Appended(IF qCall'.opStr = "desc" THEN "DESCENDING" ELSE "ASCENDING")]_vars

\* C23, amended: as stated, except that with dir omitted the appended clause
\* has no direction at all.
C23_OrderByAppends ==
  /\ qHeld.orderBy = <<>>
  /\ [][BuilderCall =>
          C23_Appended(CASE qCall'.opStr = "desc" -> "DESCENDING"
                         [] qCall'.opStr = "asc" -> "ASCENDING"
                         [] OTHER -> "undefined")]_vars

\* orderBy('x') without direction was called on a query of two clauses of
\* different fields
C23_Witness ==
  /\ qCall.op = "orderBy" /\ qCall.field = "x" /\ qCall.opStr = "undefined"
  /\ Len(qHeld.orderBy) = 3
  /\ qHeld.orderBy[1].field # qHeld.orderBy[2].field
  /\ qHeld.orderBy[3] = [field |-> "x", direction |-> "undefined"]

\* the fields of the effective ordering the specification gives a query: its
\* ordering clauses, or the inequality-filtered field, followed by the
\* document id unless it is among them
C24_EffectiveFields(query) ==
  LET fields == C16_OrderingFields(query)
  IN IF \E i \in DOMAIN fields : fields[i] = documentId
     THEN fields
     ELSE Append(fields, documentId)

\* C24: the effective ordering a query builds its cursors against is its
\* orderBy clauses, or without any the inequality-filtered field, followed by
\* the document-id field as last clause only if that field is not among them;
\* the document-id field occurs exactly once in it.
C24_EffectiveOrdering ==
  LET fieldOrders == getFieldOrders(qHeld)
  IN /\ [i \in DOMAIN fieldOrders |-> fieldOrders[i].field] = C24_EffectiveFields(qHeld)
     /\ Cardinality({i \in DOMAIN fieldOrders : fieldOrders[i].field = documentId}) = 1

\* ------------------------------------------- claims about overlapping calls

\* C25: when two runTransaction calls on the store overlap, the commit request
\* of each call carries the token that call's own beginTransaction returned
\* and exactly the writes its own body issued: no write is committed under the
\* other call's token, committed twice, or lost.
C25_OverlapKeepsOwn ==
  /\ \A c \in Calls : commits[c] <= 1
  /\ (ev.op = "commit" /\ overlap[ev.call]) =>
       /\ tok[ev.call] # 0
       /\ ev.req.transaction = tok[ev.call]
       /\ Len(ev.req.writes) = issued[ev.call]
       /\ \A i \in 1..Len(ev.req.writes) : ev.req.writes[i].by = ev.call

\* C26: a batchGet or query get issued on the store by code that is in no
\* transaction body, while a transaction is between its beginTransaction and
\* the end of its commit, is sent without a transaction token. The transaction
\* is the first call made on the store, so that no earlier call has left a
\* token behind.
C26_OutsideReadHasNoToken ==
  (/\ ev.op \in ReadKinds
   /\ ev.call = 0
   /\ \E c \in Calls : Active(c) /\ \A d \in Calls \ {c} : pc[d] = "idle") =>
    ev.req.transaction = 0

\* C27: every QuerySnapshot get() returns has size = number of elements of
\* docs, for every response, including one that holds no document (only a read
\* time) and one that begins with a skipped-results marker.
C27_SizeIsDocCount ==
  qGet.phase = "done" => qGet.result.size = Len(qGet.result.docs)

\* C28: get() leaves the Query's stored state (filters, orderBy directions,
\* cursors, limit, reverse flag) unchanged, and a get() that follows another
\* get() on the same Query, a limitToLast query with cursors included, sends
\* the request the one before it sent.
C28_GetLeavesQuery ==
  [][GetCall =>
       /\ qHeld' = qHeld
       /\ (qCall.op = "get" /\ qGet.request # NoRunQuery) =>
            (qGet'.phase = "sent" /\ qGet'.request = qGet.request)]_vars

\* a second get() was sent on a limitToLast query that has both cursors, after
\* the first one had returned
C28_Witness ==
  /\ qCall.op = "get" /\ qCall.n = 2
  /\ qGet.phase = "sent"
  /\ qHeld.reverse
  /\ qHeld.orderBy # <<>>
  /\ qHeld.endAt.set

\* ------------------------------------------------------- the token getters

\* const exp = 3600, line 4: the seconds a signed token is valid
exp == 3600

\* the OAuth scopes the callers ask for
Scopes == {"a", "b"}

TokenCalls == 1..MaxTokenCalls

\* A token: what it was signed or fetched for, "service" or a scope, and its
\* serial number. NoToken is the undefined of lines 15 and 38
NoToken == [scope |-> "undefined", n |-> 0]

\* the test with no margin: a cached token is kept until its recorded expiry
needsTokenLate(recorded) == recorded = 0 \/ now > recorded

\* lines 25 and 41: !tokenExp || now() > tokenExp - 60
needsToken(recorded) == recorded = 0 \/ now > recorded - 60

\* getToken() without claims, lines 20-29, up to its await or, with a cached
\* token, to its return
GetToken(c) ==
  /\ tkPc[c].at = "idle"
  /\ IF needsToken(tokenExp)
     THEN /\ tkPc' = [tkPc EXCEPT ![c] = [at |-> "await", scope |-> "service"]]
          /\ UNCHANGED tkEv
     ELSE /\ tkPc' = [tkPc EXCEPT ![c] = [at |-> "done", scope |-> "service"]]
          /\ tkEv' = [call |-> c, scope |-> "service", token |-> token,
                      cached |-> TRUE, left |-> tokenExp - now]
  /\ UNCHANGED <<now, token, tokenExp, tokens, tokenExps, tkMinted>>
  /\ UNCHANGED <<txVars, batchVars, bgVars, refVars, queryVars>>

\* lines 26-29: createToken resolves, the token and its expiry are recorded
\* and the token is returned
GetTokenResumed(c) ==
  /\ tkPc[c] = [at |-> "await", scope |-> "service"]
  /\ tkMinted' = tkMinted + 1
  /\ token' = [scope |-> "service", n |-> tkMinted + 1]
  /\ tokenExp' = now + exp
  /\ tkPc' = [tkPc EXCEPT ![c].at = "done"]
  /\ tkEv' = [call |-> c, scope |-> "service", token |-> token',
              cached |-> FALSE, left |-> exp]
  /\ UNCHANGED <<now, tokens, tokenExps>>
  /\ UNCHANGED <<txVars, batchVars, bgVars, refVars, queryVars>>

\* getOauthToken(scope), lines 37-42 and 53, up to its first await or, with a
\* cached token, to its return. getToken({ scope }) is this call, line 22
GetOauthToken(c, scope) ==
  /\ tkPc[c].at = "idle"
  /\ IF needsToken(tokenExps[scope])
     THEN /\ tkPc' = [tkPc EXCEPT ![c] = [at |-> "await", scope |-> scope]]
          /\ UNCHANGED tkEv
     ELSE /\ tkPc' = [tkPc EXCEPT ![c] = [at |-> "done", scope |-> scope]]
          /\ tkEv' = [call |-> c, scope |-> scope, token |-> tokens[scope],
                      cached |-> TRUE, left |-> tokenExps[scope] - now]
  /\ UNCHANGED <<now, token, tokenExp, tokens, tokenExps, tkMinted>>
  /\ UNCHANGED <<txVars, batchVars, bgVars, refVars, queryVars>>

\* lines 42-53: the assertion is signed, the token endpoint answers with
\* access_token and expires_in, both are recorded under the scope and
\* access_token is returned; expires_in is 0 when the answer has none
GetOauthTokenResumed(c, expires_in) ==
  /\ tkPc[c].at = "await"
  /\ tkPc[c].scope \in Scopes
  /\ tkMinted' = tkMinted + 1
  /\ tokens' = [tokens EXCEPT ![tkPc[c].scope] = [scope |-> tkPc[c].scope, n |-> tkMinted + 1]]
  /\ tokenExps' = [tokenExps EXCEPT ![tkPc[c].scope] = now + expires_in]
  /\ tkPc' = [tkPc EXCEPT ![c].at = "done"]
  /\ tkEv' = [call |-> c, scope |-> tkPc[c].scope, token |-> tokens'[tkPc[c].scope],
              cached |-> FALSE, left |-> expires_in]
  /\ UNCHANGED <<now, token, tokenExp>>
  /\ UNCHANGED <<txVars, batchVars, bgVars, refVars, queryVars>>

\* now(), lines 85-87: the seconds that pass between two steps of the callers
Tick(seconds) ==
  /\ now + seconds <= MaxNow
  /\ now' = now + seconds
  /\ UNCHANGED <<token, tokenExp, tokens, tokenExps, tkPc, tkMinted, tkEv>>
  /\ UNCHANGED <<txVars, batchVars, bgVars, refVars, queryVars>>

\* lines 14-18 and 33-35: the getters are made, nothing is cached
TokenInit ==
  /\ now = 1
  /\ token = NoToken
  /\ tokenExp = 0
  /\ tokens = [s \in Scopes |-> NoToken]
  /\ tokenExps = [s \in Scopes |-> 0]
  /\ tkPc = [c \in TokenCalls |-> [at |-> "idle", scope |-> "undefined"]]
  /\ tkMinted = 0
  /\ tkEv = [call |-> 0, scope |-> "undefined", token |-> NoToken,
             cached |-> FALSE, left |-> 0]

\* the expiry and the token the getter of scope s has recorded
C29_RecordedExp(s) == IF s = "service" THEN tokenExp ELSE tokenExps[s]
C29_Recorded(s) == IF s = "service" THEN token ELSE tokens[s]

\* a call of a getter reuses the recorded token exactly while now is at most
\* its recorded expiry minus 60, and otherwise goes on to sign or fetch a
\* token that no call was given before; it records and returns that one
C29_CallStep(c) ==
  /\ (tkPc[c].at = "idle" /\ tkPc'[c].at # "idle") =>
       IF C29_RecordedExp(tkPc'[c].scope) # 0
            /\ now <= C29_RecordedExp(tkPc'[c].scope) - 60
       THEN /\ tkPc'[c].at = "done"
            /\ tkEv'.call = c /\ tkEv'.cached
            /\ tkEv'.token = C29_Recorded(tkPc'[c].scope)
            /\ tkEv'.left = C29_RecordedExp(tkPc'[c].scope) - now
       ELSE /\ tkPc'[c].at = "await"
            /\ tkEv' = tkEv
  /\ (tkPc[c].at = "await" /\ tkPc'[c].at = "done") =>
       /\ tkEv'.call = c /\ ~tkEv'.cached
       /\ tkEv'.token.n > tkMinted
       /\ tkEv'.token = C29_Recorded(tkPc[c].scope)'

\* C29, as stated: the service-account getter and the per-scope OAuth getter
\* reuse a cached token only while now is at most its recorded expiry minus 60
\* and otherwise mint or fetch a new one before returning, so a token taken
\* from the cache has more than 60 seconds of recorded validity left, under any
\* interleaving of calls; and a token cached for one scope is never returned
\* for another.
C29_MoreThanSixtyLeft ==
  /\ [](tkEv.cached => tkEv.left > 60)
  /\ [](tkEv.call # 0 => tkEv.token.scope = tkEv.scope)
  /\ [][\A c \in TokenCalls : C29_CallStep(c)]_vars

\* C29, amended: as above, but a token taken from the cache has at least 60
\* seconds of recorded validity left.
C29_AtLeastSixtyLeft ==
  /\ [](tkEv.cached => tkEv.left >= 60)
  /\ [](tkEv.call # 0 => tkEv.token.scope = tkEv.scope)
  /\ [][\A c \in TokenCalls : C29_CallStep(c)]_vars

\* a call for scope "b" was given the token cached for "b" with exactly 60
\* seconds left, while a call for scope "a" was waiting for its token
C29_Witness ==
  /\ tkEv.cached /\ tkEv.scope = "b" /\ tkEv.left = 60
  /\ tkEv.token = tokens["b"]
  /\ \E c \in TokenCalls : tkPc[c] = [at |-> "await", scope |-> "a"]

TxInit ==
  /\ transactionSymbol = 0
  /\ writesSymbol = 0
  /\ heap = [c \in Calls |-> <<>>]
  /\ pc = [c \in Calls |-> "idle"]
  /\ commitArgs = [c \in Calls |-> NoArgs]
  /\ begins = [c \in Calls |-> 0]
  /\ bodyRuns = [c \in Calls |-> 0]
  /\ commits = [c \in Calls |-> 0]
  /\ tok = [c \in Calls |-> 0]
  /\ overlap = [c \in Calls |-> FALSE]
  /\ issued = [c \in Calls |-> 0]
  /\ nextId = 1
  /\ ev = Event("init", 0, NoRequest, "", Pending)

Init == TxInit /\ BatchInit /\ BgInit /\ RefInit /\ QueryInit /\ TokenInit

Next ==
  \/ \E c \in Calls : RunTransaction(c)
  \/ \E c \in Calls : BeginResolved(c)
  \/ \E c \in Calls, e \in RequestErrors : BeginRejected(c, e)
  \/ \E c \in Calls, kind \in ReadKinds : BodyRead(c, kind)
  \/ \E c \in Calls, kind \in BodyWriteKinds : BodyWrite(c, kind)
  \/ \E c \in Calls, e \in BodyErrors : BodyThrows(c, e)
  \/ \E c \in Calls : BodyReturns(c)
  \/ \E c \in Calls : CommitSend(c)
  \/ \E c \in Calls : CommitResolved(c)
  \/ \E c \in Calls, e \in RequestErrors : CommitRejected(c, e)
  \/ \E kind \in ReadKinds : OutsideRead(kind)

\* the store with its transactions, their bodies' reads and writes, and the
\* reads of code outside them
Spec == Init /\ [][Next]_vars

NextBatch ==
  \/ Batch
  \/ \E kind \in WriteKinds : BatchWrite(kind)
  \/ BatchCommit
  \/ RunTransaction(1)
  \/ BeginResolved(1)
  \/ \E e \in RequestErrors : BeginRejected(1, e)
  \/ \E e \in BodyErrors : BodyThrows(1, e)
  \/ BodyReturns(1)
  \/ CommitSend(1)
  \/ CommitResolved(1)
  \/ \E e \in RequestErrors : CommitRejected(1, e)

\* a caller's write batch on a store on which one transaction may run
SpecBatch == Init /\ [][NextBatch]_vars

NextBatchGet ==
  \/ \E refs \in RefLists : BatchGet(refs)
  \/ \E response \in AllResponses : BatchGetResolved(response)
  \/ \E e \in RequestErrors : BatchGetRejected(e)

\* a caller that awaits one batchGet after the other, outside a transaction
SpecBatchGet == Init /\ [][NextBatchGet]_vars

NextRef ==
  \/ \E str \in PathStrings : NewReference(str)
  \/ \E list \in SegmentLists : NewReferenceOf(list)
  \/ \E str \in PathStrings : FirestoreDoc(str)
  \/ \E str \in PathStrings : FirestoreCollection(str)
  \/ \E str \in ChildStrings : DocCollection(str)
  \/ \E str \in ChildStrings : CollectionCollection(str)
  \/ \E str \in ChildStrings, auto \in AutoIds : CollectionDoc(str, auto)
  \/ DocParent
  \/ CollectionParentOf

\* a caller that builds references from paths and from the reference it holds
SpecRef == Init /\ [][NextRef]_vars

NextQuery ==
  \/ \E w \in QueryWheres : Where(w[1], w[2], w[3])
  \/ \E fieldPaths \in {<<>>, <<"x">>} : Select(fieldPaths)
  \/ \E o \in QueryOrders : OrderBy(o[1], o[2])
  \/ \E n \in QueryLimits : Limit(n)
  \/ \E n \in QueryLimits : LimitToLast(n)
  \/ \E n \in {1} : Offset(n)
  \/ \E args \in QueryCursorArgs : StartAt(args)
  \/ \E args \in QueryCursorArgs : StartAfter(args)
  \/ \E args \in QueryCursorArgs : EndAt(args)
  \/ \E args \in QueryCursorArgs : EndAfter(args)
  \/ \E args \in QueryCursorArgs : EndBefore(args)
  \/ Get
  \/ \E response \in QueryResponses : GetResolved(response)
  \/ \E e \in {"StatusError"} : GetRejected(e)

\* a caller that builds a query on a collection, one method after the other,
\* and awaits its get()
SpecQuery == Init /\ [][NextQuery]_vars

NextWhere ==
  \/ \E w \in QueryWheres : Where(w[1], w[2], w[3])
  \/ \E fieldPath \in Fields, opStr \in DOMAIN comparisonOperators, value \in JsValues :
       WhereLast(fieldPath, opStr, value)

\* a caller that adds filters to a collection's query, the last one with any
\* field, operator and value
SpecWhere == Init /\ [][NextWhere]_vars

\* the arguments of a cursor method: values, too many of them, undefined ones,
\* a snapshot that holds the ordering field and one that does not
CursorArgs ==
  {<<>>, <<"1">>, <<"1", "2">>, <<"1", "2", "1">>, <<"undefined">>, <<"1", "undefined">>,
   <<"snapshot{x:1}">>, <<"snapshot{}">>}

NextCursor ==
  \/ \E w \in QueryWheres : Where(w[1], w[2], w[3])
  \/ \E o \in QueryOrders : OrderBy(o[1], o[2])
  \/ \E args \in CursorArgs : StartAt(args)
  \/ \E args \in CursorArgs : StartAfter(args)
  \/ \E args \in CursorArgs : EndAt(args)
  \/ \E args \in CursorArgs : EndAfter(args)
  \/ \E args \in CursorArgs : EndBefore(args)

\* a caller that filters and orders a collection's query and sets its cursors
SpecCursor == Init /\ [][NextCursor]_vars

\* the responses of the server to a runQuery request: every sequence of up to
\* MaxResponseLen elements
GetResponses ==
  UNION {[1..n -> {"doc1", "doc2", "readTime", "skipped", "error"}] : n \in 0..MaxResponseLen}

NextGet ==
  \/ \E o \in {<<"x", "asc">>} : OrderBy(o[1], o[2])
  \/ \E n \in {1} : LimitToLast(n)
  \/ \E n \in {1} : Offset(n)
  \/ Get
  \/ \E response \in GetResponses : GetResolved(response)
  \/ \E e \in {"StatusError"} : GetRejected(e)

\* a caller that awaits get() of a query and is given any response
SpecGet == Init /\ [][NextGet]_vars

NextToken ==
  \/ \E c \in TokenCalls : GetToken(c)
  \/ \E c \in TokenCalls : GetTokenResumed(c)
  \/ \E c \in TokenCalls, scope \in Scopes : GetOauthToken(c, scope)
  \/ \E c \in TokenCalls, expires_in \in {0, 3600} : GetOauthTokenResumed(c, expires_in)
  \/ \E seconds \in {3539, 3540, 3541} : Tick(seconds)

\* callers that ask the two getters for tokens while time passes
SpecToken == Init /\ [][NextToken]_vars

====
